---- MODULE Spec2Model ----
(***************************************************************************)
(* Model of the RLM indexer (rlm_indexer.py), its summarization adapter    *)
(* (ollama_adapter.py) and the keyword query (rlm_query.py).               *)
(*                                                                         *)
(* The SQLite store is modelled twice: docs/chunks are the committed       *)
(* tables every connection sees, tdocs/tchunks are the tables as seen by   *)
(* the indexer's connection, including the writes of its open transaction  *)
(* (python's sqlite3 opens a transaction before INSERT/UPDATE/DELETE and   *)
(* keeps it open until conn.commit(); an exception or a crash before the   *)
(* commit rolls it back).  A table is the sequence of its rows in rowid    *)
(* order.                                                                  *)
(*                                                                         *)
(* Paths are written relative to BASE as [parts, suffix]: parts are the    *)
(* path components (the last one without its extension), suffix is         *)
(* Path.suffix as a tuple of characters.  Strings that the code inspects   *)
(* character by character (suffixes, summaries, keywords, texts) are       *)
(* tuples of one-character strings.                                        *)
(***************************************************************************)
EXTENDS Integers, Sequences, FiniteSets, TLC

VARIABLES
    docs,             \* committed table docs
    chunks,           \* committed table chunks
    tdocs,            \* table docs as seen by the indexer's connection
    tchunks,          \* table chunks as seen by the indexer's connection
    pc,               \* position of the indexer in main()
    base,             \* index into roots of the outer loop
    todo,             \* the entries base.rglob("*") has yet to produce
    path,             \* main(): path
    text,             \* main(): text
    doc_id,           \* main(): doc_id
    private_summary,  \* main(): private_summary
    public_summary,   \* main(): public_summary
    now,              \* the clock datetime.utcnow() reads; it advances between runs
    run,              \* number of batch runs started
    cause,            \* why the current run stopped early ("none" while it has not)
    last,             \* how the run before the current one ended
    snap,             \* chunk rows at the end of the run before, if it completed
    indexed,          \* paths committed by the current run
    submitted,        \* the requests the current run sent to the backend
    qkw,              \* keyword of the last query
    result,           \* rows the last query printed
    call,             \* <<arguments and input table>> of a direct upsert_chunk call
    tree,             \* the entries of the document tree that exist
    roots,            \* the configured target directories
    changes,          \* number of changes made to the document tree
    req,              \* the last request to /summarize, << >> when none
    resp,             \* the response to it
    procs,            \* the subprocess.run calls of the last summarize call
    ret               \* what the last summarize call returned or raised

vars == <<docs, chunks, tdocs, tchunks, pc, base, todo, path, text, doc_id,
          private_summary, public_summary, now, run, cause, last, snap,
          indexed, submitted, qkw, result, call, tree, roots, changes,
          req, resp, procs, ret>>

(***************************************************************************)
(* Bounds of the model.                                                    *)
(***************************************************************************)
MaxRuns == 2     \* batch runs per behaviour
MaxRows == 3     \* rows of the input table of a direct upsert_chunk call
MaxChanges == 1  \* deletions and renamings of files per behaviour
MaxLen == 20000  \* characters of the longest document text

(***************************************************************************)
(* Program constants.                                                      *)
(***************************************************************************)
SNAPSHOT_LEN == 10000   \* text[:10000]
PROMPT_LEN == 6000      \* text[:6000]
LIMIT == 10             \* LIMIT 10

None == "none"
NoPath == [parts |-> <<>>, suffix |-> <<>>]

(***************************************************************************)
(* Strings.                                                                *)
(***************************************************************************)
lower_char(c) ==
    CASE c = "A" -> "a"
      [] c = "B" -> "b"
      [] c = "C" -> "c"
      [] c = "D" -> "d"
      [] c = "M" -> "m"
      [] c = "T" -> "t"
      [] c = "X" -> "x"
      [] OTHER -> c

lower(s) == [i \in DOMAIN s |-> lower_char(s[i])]

Min(a, b) == IF a < b THEN a ELSE b

\* s[:n]
Take(s, n) == SubSeq(s, 1, Min(Len(s), n))

\* the elements of a sequence
Rows(tbl) == {tbl[i] : i \in DOMAIN tbl}

IsPrefix(a, b) == Len(a) <= Len(b) /\ SubSeq(b, 1, Len(a)) = a

(***************************************************************************)
(* Configuration.  The configured directories are abbreviated; one         *)
(* exclusion prefix lies inside a target directory, so that the walk       *)
(* reaches paths under it, the other one lies outside every target         *)
(* directory as in the source.  The third target directory does not exist. *)
(***************************************************************************)
TARGET_DIRS == << <<"Shared">>, <<"Gifts">>, <<"Research">> >>

EXCLUDE == << <<"Shared", "Private">>, <<"Notes", "Relationships">> >>

(***************************************************************************)
(* The document tree.                                                      *)
(***************************************************************************)
MD == <<".", "m", "d">>
TXT_UPPER == <<".", "T", "X", "T">>
PY == <<".", "p", "y">>

fA == [parts |-> <<"Shared", "a">>, suffix |-> MD]
fS == [parts |-> <<"Shared", "Private", "s">>, suffix |-> MD]
fC == [parts |-> <<"Research", "c">>, suffix |-> TXT_UPPER]
fP == [parts |-> <<"Research", "p">>, suffix |-> PY]
fR == [parts |-> <<"Research", "r">>, suffix |-> TXT_UPPER]   \* the name fC is renamed to
dPrivate == [parts |-> <<"Shared", "Private">>, suffix |-> <<>>]
dShared == [parts |-> <<"Shared">>, suffix |-> <<>>]
dResearch == [parts |-> <<"Research">>, suffix |-> <<>>]
dBase == [parts |-> <<>>, suffix |-> <<>>]

Dirs == {dBase, dShared, dResearch, dPrivate}
Files == {fA, fS, fC, fP}

\* the entries of the tree in the order the directory listings give them
Listing == <<dShared, dPrivate, fS, fA, dResearch, fC, fR, fP>>

\* the tree the first run finds
Tree == {Listing[i] : i \in DOMAIN Listing} \ {fR}

is_dir(p) == p \in Dirs

exists(b) == \E d \in Dirs : d.parts = b /\ d.suffix = <<>>

\* base.rglob("*"): every entry below base, directories included
rglob(b) ==
    SelectSeq(Listing, LAMBDA p : p \in tree /\ IsPrefix(b, p.parts) /\ p.parts # b)

\* path.read_text(encoding="utf-8", errors="ignore")
read_text(p) ==
    CASE p = fA -> <<"x", "y">>
      [] p = fS -> <<"s">>
      [] p = fC -> <<"z">>
      [] p = fR -> <<"z">>
      [] OTHER -> <<"p">>

\* path.relative_to(ex) does not raise ValueError
relative_to(p, ex) == IsPrefix(ex, p.parts)

(***************************************************************************)
(* rlm_indexer.py                                                          *)
(***************************************************************************)
should_index_NoExclude(p) ==
    /\ ~is_dir(p)
    /\ lower(p.suffix) \in {MD, <<".", "t", "x", "t">>}

should_index(p) ==
    /\ ~is_dir(p)
    /\ lower(p.suffix) \in {MD, <<".", "t", "x", "t">>}
    /\ \A i \in DOMAIN EXCLUDE : ~relative_to(p, EXCLUDE[i])

MaxId(tbl) ==
    IF tbl = <<>> THEN 0
    ELSE CHOOSE m \in {tbl[i].id : i \in DOMAIN tbl} :
             \A i \in DOMAIN tbl : tbl[i].id <= m

\* the first row of SELECT id FROM docs WHERE path = ?
FetchOne(tbl, p) ==
    LET hits == {i \in DOMAIN tbl : tbl[i].path = p}
    IN  IF hits = {} THEN 0
        ELSE tbl[CHOOSE i \in hits : \A j \in hits : i <= j].id

upsert_doc_UpdateAll(tbl, p, t) ==
    LET id == FetchOne(tbl, p)
    IN  IF id # 0
        THEN [docs |-> [j \in DOMAIN tbl |-> [tbl[j] EXCEPT !.updated_at = t]],
              doc_id |-> id]
        ELSE [docs |-> Append(tbl, [id |-> MaxId(tbl) + 1, path |-> p,
                                    source |-> "scratchpad",
                                    created_at |-> t, updated_at |-> t]),
              doc_id |-> MaxId(tbl) + 1]

upsert_doc_AlwaysInsert(tbl, p, t) ==
    [docs |-> Append(tbl, [id |-> MaxId(tbl) + 1, path |-> p,
                           source |-> "scratchpad",
                           created_at |-> t, updated_at |-> t]),
     doc_id |-> MaxId(tbl) + 1]

\* the table after the call and the id it returns
upsert_doc(tbl, p, t) ==
    LET id == FetchOne(tbl, p)
    IN  IF id # 0
        THEN [docs |-> [j \in DOMAIN tbl |->
                          IF tbl[j].id = id
                          THEN [tbl[j] EXCEPT !.updated_at = t]
                          ELSE tbl[j]],
              doc_id |-> id]
        ELSE [docs |-> Append(tbl, [id |-> MaxId(tbl) + 1, path |-> p,
                                    source |-> "scratchpad",
                                    created_at |-> t, updated_at |-> t]),
              doc_id |-> MaxId(tbl) + 1]

ChunkRow(d, layer, content, summary) ==
    [doc_id |-> d, layer |-> layer, content |-> content, tags |-> <<>>,
     summary |-> summary]

upsert_chunk_NoDelete(tbl, d, layer, content, summary) ==
    Append(tbl, ChunkRow(d, layer, content, summary))

upsert_chunk_DeleteLayer(tbl, d, layer, content, summary) ==
    Append(SelectSeq(tbl, LAMBDA r : r.layer # layer),
           ChunkRow(d, layer, content, summary))

upsert_chunk_DeleteDoc(tbl, d, layer, content, summary) ==
    Append(SelectSeq(tbl, LAMBDA r : r.doc_id # d),
           ChunkRow(d, layer, content, summary))

upsert_chunk(tbl, d, layer, content, summary) ==
    Append(SelectSeq(tbl, LAMBDA r : ~(r.doc_id = d /\ r.layer = layer)),
           ChunkRow(d, layer, content, summary))

(***************************************************************************)
(* ollama_adapter.py: the backend's answer is an input of the model.       *)
(***************************************************************************)
Outputs == { <<"A", "b">>, <<"c">> }

PromptText_Snapshot(t) == Take(t, SNAPSHOT_LEN)

\* the text the prompt of summarize_private / summarize_public ends with
PromptText(t) == Take(t, PROMPT_LEN)

\* one call of ollama_generate: the document and layer it is made for and
\* the text its prompt carries
Request(p, layer, t) == [path |-> p, layer |-> layer, text |-> PromptText(t)]

(***************************************************************************)
(* rlm_query.py                                                            *)
(***************************************************************************)
Keywords == { <<"A">>, <<"_">> }

\* SQLite's LIKE: % matches any sequence, _ any one character, letters
\* match without regard to case
RECURSIVE Like(_, _)
Like(s, pat) ==
    IF pat = <<>> THEN s = <<>>
    ELSE IF Head(pat) = "%"
         THEN Like(s, Tail(pat)) \/ (s # <<>> /\ Like(Tail(s), pat))
         ELSE /\ s # <<>>
              /\ Head(pat) = "_" \/ lower_char(Head(pat)) = lower_char(Head(s))
              /\ Like(Tail(s), Tail(pat))

\* chunks JOIN docs ON chunks.doc_id = docs.id, in the order of chunks
RECURSIVE Join(_, _)
Join(ch, dc) ==
    IF ch = <<>> THEN <<>>
    ELSE LET c == Head(ch)
             m == SelectSeq(dc, LAMBDA d : d.id = c.doc_id)
         IN  [i \in DOMAIN m |-> [path |-> m[i].path, layer |-> c.layer,
                                  summary |-> c.summary]]
             \o Join(Tail(ch), dc)

SelectRows_AnyLayer(ch, dc, kw) ==
    Take(SelectSeq(Join(ch, dc),
                   LAMBDA r : Like(r.summary, <<"%">> \o lower(kw) \o <<"%">>)),
         LIMIT)

\* the joined rows the SELECT of main() picks, before projection
SelectRows(ch, dc, kw) ==
    Take(SelectSeq(Join(ch, dc),
                   LAMBDA r : /\ r.layer = "public"
                              /\ Like(r.summary, <<"%">> \o lower(kw) \o <<"%">>)),
         LIMIT)

\* SELECT docs.path, chunks.summary ...
search(ch, dc, kw) ==
    LET rows == SelectRows(ch, dc, kw)
    IN  [i \in DOMAIN rows |-> <<rows[i].path, rows[i].summary>>]

(***************************************************************************)
(* Initial state: an empty store, no run started.                          *)
(***************************************************************************)
NoService ==
    /\ req = <<>>
    /\ resp = <<>>
    /\ procs = <<>>
    /\ ret = <<>>

Locals ==
    /\ path = NoPath
    /\ text = <<>>
    /\ doc_id = 0
    /\ private_summary = <<>>
    /\ public_summary = <<>>

Init ==
    /\ docs = <<>>
    /\ chunks = <<>>
    /\ tdocs = <<>>
    /\ tchunks = <<>>
    /\ pc = "idle"
    /\ base = 0
    /\ todo = <<>>
    /\ Locals
    /\ now = 0
    /\ run = 0
    /\ cause = None
    /\ last = None
    /\ snap = <<>>
    /\ indexed = {}
    /\ submitted = {}
    /\ qkw = <<>>
    /\ result = <<>>
    /\ call = <<>>
    /\ tree = Tree
    /\ roots = TARGET_DIRS
    /\ changes = 0
    /\ NoService

ResetLocals ==
    /\ path' = NoPath
    /\ text' = <<>>
    /\ doc_id' = 0
    /\ private_summary' = <<>>
    /\ public_summary' = <<>>

Stopped == pc \in {"idle", "done", "aborted", "crashed"}

query_vars == <<qkw, result>>
ghost_run == <<run, last, snap>>
store == <<docs, chunks>>
conn == <<tdocs, tchunks>>
locals == <<path, text, doc_id, private_summary, public_summary>>
env == <<tree, roots, changes>>
service == <<req, resp, procs, ret>>

(***************************************************************************)
(* main() of rlm_indexer.py, one action per statement.                     *)
(***************************************************************************)
\* line 70: conn = ensure_db(); the schema script leaves existing tables alone
StartRun ==
    /\ Stopped
    /\ run < MaxRuns
    /\ run' = run + 1
    /\ now' = now + 1
    /\ last' = IF pc = "done" THEN "done" ELSE cause
    /\ snap' = IF pc = "done" THEN chunks ELSE <<>>
    /\ cause' = None
    /\ indexed' = {}
    /\ tdocs' = docs
    /\ tchunks' = chunks
    /\ pc' = "roots"
    /\ base' = 1
    /\ todo' = <<>>
    /\ submitted' = {}
    /\ UNCHANGED <<store, locals, query_vars, call, env, service>>

\* a missing target directory ends the run with an error
SkipMissingRoot_Raises ==
    /\ pc = "roots"
    /\ base <= Len(roots)
    /\ ~exists(roots[base])
    /\ pc' = "aborted"
    /\ cause' = "missing"
    /\ base' = 0
    /\ UNCHANGED <<store, conn, todo, locals, now, ghost_run,
                   indexed, submitted, query_vars, call, env, service>>

\* lines 72-73: if not base.exists(): continue
SkipMissingRoot ==
    /\ pc = "roots"
    /\ base <= Len(roots)
    /\ ~exists(roots[base])
    /\ base' = base + 1
    /\ UNCHANGED <<store, conn, pc, todo, locals, now, ghost_run, cause,
                   indexed, submitted, query_vars, call, env, service>>

\* line 74: for path in base.rglob("*")
EnterRoot ==
    /\ pc = "roots"
    /\ base <= Len(roots)
    /\ exists(roots[base])
    /\ todo' = rglob(roots[base])
    /\ pc' = "walk"
    /\ UNCHANGED <<store, conn, base, locals, now, ghost_run, cause, indexed,
                   submitted, query_vars, call, env, service>>

\* line 74: the walk of base is exhausted
LeaveRoot ==
    /\ pc = "walk"
    /\ todo = <<>>
    /\ base' = base + 1
    /\ pc' = "roots"
    /\ UNCHANGED <<store, conn, todo, locals, now, ghost_run, cause, indexed,
                   submitted, query_vars, call, env, service>>

\* lines 75-76: if not should_index(path): continue
SkipPath ==
    /\ pc = "walk"
    /\ todo # <<>>
    /\ ~should_index(Head(todo))
    /\ todo' = Tail(todo)
    /\ UNCHANGED <<store, conn, pc, base, locals, now, ghost_run, cause,
                   indexed, submitted, query_vars, call, env, service>>

\* lines 74-75: the next path of the walk passes should_index
TakePath ==
    /\ pc = "walk"
    /\ todo # <<>>
    /\ should_index(Head(todo))
    /\ path' = Head(todo)
    /\ todo' = Tail(todo)
    /\ pc' = "read"
    /\ UNCHANGED <<store, conn, base, text, doc_id, private_summary,
                   public_summary, now, ghost_run, cause, indexed, submitted,
                   query_vars, call, env, service>>

\* the summaries are asked for before the document has its row
ReadText_ThenSummarize ==
    /\ pc = "read"
    /\ text' = read_text(path)
    /\ pc' = "summarize_private"
    /\ UNCHANGED <<store, conn, base, todo, path, doc_id, private_summary,
                   public_summary, now, ghost_run, cause, indexed, submitted,
                   query_vars, call, env, service>>

\* line 77: text = path.read_text(...)
ReadText ==
    /\ pc = "read"
    /\ text' = read_text(path)
    /\ pc' = "upsert_doc"
    /\ UNCHANGED <<store, conn, base, todo, path, doc_id, private_summary,
                   public_summary, now, ghost_run, cause, indexed, submitted,
                   query_vars, call, env, service>>

\* the loop goes on with the next path instead
Abort_Skip(why) ==
    /\ pc' = "walk"
    /\ cause' = why
    /\ tdocs' = docs
    /\ tchunks' = chunks
    /\ ResetLocals
    /\ UNCHANGED <<store, base, todo, now, ghost_run, indexed, query_vars, call, env, service>>

\* the open transaction is committed when the exception leaves main()
Abort_Commits(why) ==
    /\ pc' = "aborted"
    /\ cause' = why
    /\ docs' = tdocs
    /\ chunks' = tchunks
    /\ base' = 0
    /\ todo' = <<>>
    /\ ResetLocals
    /\ UNCHANGED <<conn, now, ghost_run, indexed, query_vars, call, env, service>>

\* an exception leaves main(): the process ends, the open transaction is
\* never committed
Abort(why) ==
    /\ pc' = "aborted"
    /\ cause' = why
    /\ tdocs' = docs
    /\ tchunks' = chunks
    /\ base' = 0
    /\ todo' = <<>>
    /\ ResetLocals
    /\ UNCHANGED <<store, now, ghost_run, indexed, query_vars, call, env, service>>

\* line 77: read_text raises (PermissionError, OSError); nothing catches it
ReadFail ==
    /\ pc = "read"
    /\ Abort("read")
    /\ UNCHANGED submitted

\* line 78: doc_id = upsert_doc(conn, path)
UpsertDoc ==
    /\ pc = "upsert_doc"
    /\ LET r == upsert_doc(tdocs, path, now)
       IN  /\ tdocs' = r.docs
           /\ doc_id' = r.doc_id
    /\ pc' = "summarize_private"
    /\ UNCHANGED <<store, tchunks, base, todo, path, text, private_summary,
                   public_summary, now, ghost_run, cause, indexed, submitted,
                   query_vars, call, env, service>>

\* line 79: private_summary = summarize_private(text), the backend answers
SummarizePrivate ==
    /\ pc = "summarize_private"
    /\ \E out \in Outputs : private_summary' = out
    /\ submitted' = submitted \cup {Request(path, "private", text)}
    /\ pc' = "summarize_public"
    /\ UNCHANGED <<store, conn, base, todo, path, text, doc_id, public_summary,
                   now, ghost_run, cause, indexed, query_vars, call, env, service>>

\* line 79: ollama_generate raises RuntimeError (returncode != 0)
SummarizePrivateFail ==
    /\ pc = "summarize_private"
    /\ submitted' = submitted \cup {Request(path, "private", text)}
    /\ Abort("backend")

\* line 80: public_summary = summarize_public(text), the backend answers
SummarizePublic ==
    /\ pc = "summarize_public"
    /\ \E out \in Outputs : public_summary' = out
    /\ submitted' = submitted \cup {Request(path, "public", text)}
    /\ pc' = "chunk_private"
    /\ UNCHANGED <<store, conn, base, todo, path, text, doc_id, private_summary,
                   now, ghost_run, cause, indexed, query_vars, call, env, service>>

\* line 80: ollama_generate raises RuntimeError (returncode != 0)
SummarizePublicFail ==
    /\ pc = "summarize_public"
    /\ submitted' = submitted \cup {Request(path, "public", text)}
    /\ Abort("backend")

\* upsert_chunk commits on its own
UpsertChunkPrivate_Commits ==
    /\ pc = "chunk_private"
    /\ tchunks' = upsert_chunk(tchunks, doc_id, "private",
                               Take(text, SNAPSHOT_LEN), private_summary)
    /\ chunks' = tchunks'
    /\ docs' = tdocs
    /\ pc' = "chunk_public"
    /\ UNCHANGED <<tdocs, base, todo, locals, now, ghost_run, cause,
                   indexed, submitted, query_vars, call, env, service>>

\* line 81: upsert_chunk(conn, doc_id, "private", text[:10000], private_summary)
UpsertChunkPrivate ==
    /\ pc = "chunk_private"
    /\ tchunks' = upsert_chunk(tchunks, doc_id, "private",
                               Take(text, SNAPSHOT_LEN), private_summary)
    /\ pc' = "chunk_public"
    /\ UNCHANGED <<store, tdocs, base, todo, locals, now, ghost_run, cause,
                   indexed, submitted, query_vars, call, env, service>>

\* the DELETE of upsert_chunk is committed before its INSERT
UpsertChunkPublic_DeleteCommitted ==
    /\ pc = "chunk_public"
    /\ tchunks' = upsert_chunk(tchunks, doc_id, "public",
                               Take(text, SNAPSHOT_LEN), public_summary)
    /\ chunks' = SelectSeq(chunks, LAMBDA r : ~(r.doc_id = doc_id /\ r.layer = "public"))
    /\ pc' = "commit"
    /\ UNCHANGED <<docs, tdocs, base, todo, locals, now, ghost_run, cause,
                   indexed, submitted, query_vars, call, env, service>>

\* line 82: upsert_chunk(conn, doc_id, "public", text[:10000], public_summary)
UpsertChunkPublic ==
    /\ pc = "chunk_public"
    /\ tchunks' = upsert_chunk(tchunks, doc_id, "public",
                               Take(text, SNAPSHOT_LEN), public_summary)
    /\ pc' = "commit"
    /\ UNCHANGED <<store, tdocs, base, todo, locals, now, ghost_run, cause,
                   indexed, submitted, query_vars, call, env, service>>

\* line 83: conn.commit()
Commit ==
    /\ pc = "commit"
    /\ docs' = tdocs
    /\ chunks' = tchunks
    /\ indexed' = indexed \cup {path}
    /\ pc' = "walk"
    /\ ResetLocals
    /\ UNCHANGED <<conn, base, todo, now, ghost_run, cause, submitted,
                   query_vars, call, env, service>>

\* line 85: conn.close() after the last target directory
Finish ==
    /\ pc = "roots"
    /\ base > Len(roots)
    /\ pc' = "done"
    /\ base' = 0
    /\ UNCHANGED <<store, conn, todo, locals, now, ghost_run, cause, indexed,
                   submitted, query_vars, call, env, service>>

\* the process is killed at any statement of main(); SQLite rolls the open
\* transaction back
Crash ==
    /\ pc \in {"roots", "walk", "read", "upsert_doc", "summarize_private",
               "summarize_public", "chunk_private", "chunk_public", "commit"}
    /\ pc' = "crashed"
    /\ cause' = pc
    /\ tdocs' = docs
    /\ tchunks' = chunks
    /\ base' = 0
    /\ todo' = <<>>
    /\ ResetLocals
    /\ UNCHANGED <<store, now, ghost_run, indexed, submitted, query_vars, call, env, service>>

(***************************************************************************)
(* main() of rlm_query.py: its own connection reads the committed tables.  *)
(***************************************************************************)
Query ==
    /\ \E kw \in Keywords :
         /\ qkw' = kw
         /\ result' = search(chunks, docs, kw)
    /\ UNCHANGED <<store, conn, pc, base, todo, locals, now, ghost_run, cause,
                   indexed, submitted, call, env, service>>

Next ==
    \/ StartRun
    \/ SkipMissingRoot
    \/ EnterRoot
    \/ LeaveRoot
    \/ SkipPath
    \/ TakePath
    \/ ReadText
    \/ ReadFail
    \/ UpsertDoc
    \/ SummarizePrivate
    \/ SummarizePrivateFail
    \/ SummarizePublic
    \/ SummarizePublicFail
    \/ UpsertChunkPrivate
    \/ UpsertChunkPublic
    \/ Commit
    \/ Finish
    \/ Crash

\* the batch runs of the indexer
Spec == Init /\ [][Next]_vars

NextQuery ==
    \/ Next
    \/ Query

\* the batch runs of the indexer with queries at any point between its steps
SpecQuery == Init /\ [][NextQuery]_vars

(***************************************************************************)
(* upsert_chunk called directly on an arbitrary chunks table: the table    *)
(* may hold any number of rows for the pair it is called with.             *)
(***************************************************************************)
Layers == {"private", "public"}
DocIds == {1, 2}
Contents == { <<"x">>, <<"z">> }

RowUniverse ==
    {ChunkRow(d, l, c, s) : d \in DocIds, l \in Layers, c \in {<<"x">>}, s \in Outputs}

Tables == UNION {[1..n -> RowUniverse] : n \in 0..MaxRows}

InitChunk ==
    /\ docs = <<>>
    /\ chunks = <<>>
    /\ tdocs = <<>>
    /\ tchunks \in Tables
    /\ pc = "unit"
    /\ base = 0
    /\ todo = <<>>
    /\ Locals
    /\ now = 0
    /\ run = 0
    /\ cause = None
    /\ last = None
    /\ snap = <<>>
    /\ indexed = {}
    /\ submitted = {}
    /\ qkw = <<>>
    /\ result = <<>>
    /\ call = <<>>
    /\ tree = Tree
    /\ roots = TARGET_DIRS
    /\ changes = 0
    /\ NoService

DirectUpsertChunk ==
    /\ pc = "unit"
    /\ call = <<>>
    /\ \E d \in DocIds, l \in Layers, c \in Contents, s \in Outputs :
         /\ tchunks' = upsert_chunk(tchunks, d, l, c, s)
         /\ call' = << [pre |-> tchunks, doc_id |-> d, layer |-> l,
                        content |-> c, summary |-> s] >>
    /\ UNCHANGED <<store, tdocs, pc, base, todo, locals, now, ghost_run, cause,
                   indexed, submitted, query_vars, env, service>>

NextChunk == DirectUpsertChunk

SpecChunk == InitChunk /\ [][NextChunk]_vars

(***************************************************************************)
(* Helpers of the properties.                                              *)
(***************************************************************************)
\* number of rows of a chunks table for (d, layer)
Count(tbl, d, layer) ==
    Cardinality({i \in DOMAIN tbl : tbl[i].doc_id = d /\ tbl[i].layer = layer})

UnderExclusion(p) == \E i \in DOMAIN EXCLUDE : IsPrefix(EXCLUDE[i], p.parts)

\* the rows of a docs table for path p
DocsOf(tbl, p) == {i \in DOMAIN tbl : tbl[i].path = p}

\* the statements of main() between upsert_doc and the commit
InDocument == {"summarize_private", "summarize_public", "chunk_private",
               "chunk_public", "commit"}

(***************************************************************************)
(* C1: for every keyword and every store state, each (path, summary) row   *)
(* the query returns is the path and summary of a chunk of layer public;   *)
(* no row comes from a private chunk.                                      *)
(***************************************************************************)
C1_SearchReturnsOnlyPublic ==
    \A kw \in Keywords :
        LET out == search(chunks, docs, kw)
        IN  \A i \in DOMAIN out :
                \E c \in Rows(chunks), d \in Rows(docs) :
                    /\ c.layer = "public"
                    /\ c.doc_id = d.id
                    /\ d.path = out[i][1]
                    /\ c.summary = out[i][2]

\* a query has printed rows while a private chunk of the same document
\* matches the keyword with a summary its public chunk does not have
C1_Witness ==
    /\ result # <<>>
    /\ result = search(chunks, docs, qkw)
    /\ \E c \in Rows(chunks) :
         /\ c.layer = "private"
         /\ Like(c.summary, <<"%">> \o lower(qkw) \o <<"%">>)
         /\ \A u \in Rows(chunks) :
                (u.layer = "public" /\ u.doc_id = c.doc_id) => u.summary # c.summary

(***************************************************************************)
(* C2: a path under an exclusion prefix never gets a docs row or a chunk   *)
(* row, is never the document main() works on, and its text is never sent  *)
(* to the backend, in the committed store as in the open transaction.      *)
(***************************************************************************)
C2_ExcludedNeverStored ==
    /\ \A p \in Tree :
         UnderExclusion(p) =>
             /\ DocsOf(docs, p) = {}
             /\ DocsOf(tdocs, p) = {}
             /\ \A r \in submitted : r.path # p /\ r.text # PromptText(read_text(p))
             /\ path # p
    /\ \A c \in Rows(chunks) :
         \E d \in Rows(docs) : d.id = c.doc_id /\ ~UnderExclusion(d.path)
    /\ \A c \in Rows(tchunks) :
         \E d \in Rows(tdocs) : d.id = c.doc_id /\ ~UnderExclusion(d.path)

\* a run has walked a target directory that holds a regular .md file under
\* an exclusion prefix, and has indexed other files
C2_Witness ==
    /\ pc = "done"
    /\ docs # <<>>
    /\ \E b \in DOMAIN roots, p \in Tree :
         /\ p \in Rows(rglob(roots[b]))
         /\ UnderExclusion(p)
         /\ ~is_dir(p)
         /\ lower(p.suffix) = MD

(***************************************************************************)
(* C3: in every store state, committed or inside a transaction, at most    *)
(* one chunk row exists for each (doc_id, layer).                          *)
(***************************************************************************)
C3_AtMostOneChunkPerLayer ==
    /\ \A i, j \in DOMAIN chunks :
         (chunks[i].doc_id = chunks[j].doc_id /\ chunks[i].layer = chunks[j].layer)
             => i = j
    /\ \A i, j \in DOMAIN tchunks :
         (tchunks[i].doc_id = tchunks[j].doc_id /\ tchunks[i].layer = tchunks[j].layer)
             => i = j

\* a document indexed by an earlier run is indexed again after a run that
\* was interrupted: both of its chunks have just been replaced
C3_Witness ==
    /\ pc = "commit"
    /\ last \notin {None, "done"}
    /\ Count(chunks, doc_id, "private") = 1
    /\ Count(chunks, doc_id, "public") = 1
    /\ tchunks # chunks

(***************************************************************************)
(* C4: after upsert_chunk(d, layer, c, s) exactly one row exists for       *)
(* (d, layer), it holds (c, s), and the rows of every other pair are the   *)
(* rows of the input table, however many rows the pair had before.         *)
(***************************************************************************)
C4_ReplaceChunkExactlyOne ==
    call # <<>> =>
        LET a == call[1]
            other(r) == ~(r.doc_id = a.doc_id /\ r.layer = a.layer)
        IN  /\ Count(tchunks, a.doc_id, a.layer) = 1
            /\ \A r \in Rows(tchunks) :
                   ~other(r) => (r.content = a.content /\ r.summary = a.summary)
            /\ SelectSeq(tchunks, other) = SelectSeq(a.pre, other)

\* the call found two or more rows of its pair and a row of the other layer
\* of the same document
C4_Witness ==
    /\ call # <<>>
    /\ Count(call[1].pre, call[1].doc_id, call[1].layer) >= 2
    /\ \E r \in Rows(call[1].pre) :
         r.doc_id = call[1].doc_id /\ r.layer # call[1].layer

(***************************************************************************)
(* C5, as the specification states it: when a complete run follows a       *)
(* complete run, the set of (doc_id, layer, content, tags, summary) rows   *)
(* after the second equals the set after the first.                        *)
(***************************************************************************)
C5_RerunIdentical ==
    (pc = "done" /\ last = "done") => Rows(chunks) = Rows(snap)

\* a chunk row without its summary
Unsummarized(r) ==
    [doc_id |-> r.doc_id, layer |-> r.layer, content |-> r.content, tags |-> r.tags]

(***************************************************************************)
(* C5, amended: when a complete run follows a complete run, the chunks     *)
(* table has as many rows as before and the same set of (doc_id, layer,    *)
(* content, tags); each summary is an answer of the backend.               *)
(***************************************************************************)
C5_RerunIdenticalButSummaries ==
    (pc = "done" /\ last = "done") =>
        /\ Len(chunks) = Len(snap)
        /\ {Unsummarized(r) : r \in Rows(chunks)} = {Unsummarized(r) : r \in Rows(snap)}
        /\ \A r \in Rows(chunks) : r.summary \in Outputs

\* two complete runs in a row over the tree, the second one with another
\* answer of the backend
C5_Witness ==
    /\ pc = "done"
    /\ last = "done"
    /\ snap # <<>>
    /\ Rows(chunks) # Rows(snap)

Candidates ==
    LET walked == UNION {Rows(rglob(roots[b])) :
                            b \in {r \in DOMAIN roots : exists(roots[r])}}
    IN  {p \in walked : /\ ~is_dir(p)
                        /\ lower(p.suffix) \in {MD, <<".", "t", "x", "t">>}
                        /\ ~UnderExclusion(p)}

\* the store a batch that was never interrupted leaves: one docs row, one
\* private and one public chunk per candidate, and nothing else
CompleteShape ==
    /\ \A p \in Candidates :
         /\ Cardinality(DocsOf(docs, p)) = 1
         /\ \A i \in DocsOf(docs, p) :
                /\ Count(chunks, docs[i].id, "private") = 1
                /\ Count(chunks, docs[i].id, "public") = 1
    /\ Len(docs) = Cardinality(Candidates)
    /\ Len(chunks) = 2 * Cardinality(Candidates)

(***************************************************************************)
(* C6: when a run completes after a run that crashed or aborted at any     *)
(* statement, every candidate has exactly one docs row, one private and    *)
(* one public chunk, as after a batch that was never interrupted.          *)
(***************************************************************************)
C6_RerunRecovers ==
    (pc = "done" /\ last \notin {None, "done"}) => CompleteShape

\* the run before crashed between the write of the private and the write
\* of the public chunk of a document
C6_Witness ==
    /\ pc = "done"
    /\ last = "chunk_public"

(***************************************************************************)
(* C7, as the specification states it: the private chunk is committed      *)
(* before the write of the public chunk begins, so no transaction is open  *)
(* at that point.                                                          *)
(***************************************************************************)
C7_PrivateCommittedFirst ==
    pc = "chunk_public" => (chunks = tchunks /\ docs = tdocs)

(***************************************************************************)
(* C7, amended: no transaction spans more than one document, and the       *)
(* committed tables change only at the commit of line 83, which commits    *)
(* the docs row and both chunks of one document together.                  *)
(***************************************************************************)
C7_OneCommitPerDocument ==
    /\ [](pc \notin InDocument => (tdocs = docs /\ tchunks = chunks))
    /\ [][(docs' # docs \/ chunks' # chunks) =>
             /\ pc = "commit"
             /\ docs' = tdocs
             /\ chunks' = tchunks
             /\ Count(chunks', doc_id, "private") = 1
             /\ Count(chunks', doc_id, "public") = 1
             /\ \A c \in Rows(chunks') : c.doc_id # doc_id => c \in Rows(chunks)]_vars

\* the public chunk is about to be written while the private chunk of the
\* document is in the open transaction only
C7_Witness ==
    /\ pc = "chunk_public"
    /\ Count(tchunks, doc_id, "private") = 1
    /\ Count(chunks, doc_id, "private") = 0
    /\ chunks # <<>>

(***************************************************************************)
(* C8: once a summarization has failed in a run, the run is aborted: no    *)
(* document is being worked on, nothing is left uncommitted, and every     *)
(* document the run committed before still has its docs row and both       *)
(* chunks.                                                                 *)
(***************************************************************************)
C8_BackendFailureAborts ==
    cause = "backend" =>
        /\ pc = "aborted"
        /\ path = NoPath
        /\ tdocs = docs
        /\ tchunks = chunks
        /\ indexed # Candidates
        /\ \A p \in indexed :
               /\ Cardinality(DocsOf(docs, p)) = 1
               /\ \A i \in DocsOf(docs, p) :
                      /\ Count(chunks, docs[i].id, "private") = 1
                      /\ Count(chunks, docs[i].id, "public") = 1

\* the backend failed on the second document of a run
C8_Witness ==
    /\ cause = "backend"
    /\ indexed # {}
    /\ run = 1

(***************************************************************************)
(* C9, as the specification states it: a read failure never aborts the     *)
(* batch.                                                                  *)
(***************************************************************************)
C9_ReadFailureNeverAborts ==
    ~(pc = "aborted" /\ cause = "read")

(***************************************************************************)
(* C10: upsert_doc on a known path returns the id of its row, adds no row  *)
(* and changes only updated_at of that row; on an unknown path it appends  *)
(* one row with a fresh id and created_at = updated_at = now.  A committed *)
(* docs row keeps its id, path, source and created_at for ever.            *)
(***************************************************************************)
C10_UpsertDocIdempotent ==
    /\ [](pc \in InDocument =>
            IF DocsOf(docs, path) # {}
            THEN /\ Len(tdocs) = Len(docs)
                 /\ \A i \in DOMAIN docs :
                        IF docs[i].path = path
                        THEN /\ doc_id = docs[i].id
                             /\ tdocs[i] = [docs[i] EXCEPT !.updated_at = now]
                        ELSE tdocs[i] = docs[i]
            ELSE /\ Len(tdocs) = Len(docs) + 1
                 /\ SubSeq(tdocs, 1, Len(docs)) = docs
                 /\ tdocs[Len(tdocs)] = [id |-> doc_id, path |-> path,
                                         source |-> "scratchpad",
                                         created_at |-> now, updated_at |-> now]
                 /\ \A i \in DOMAIN docs : docs[i].id # doc_id)
    /\ [][\A i \in DOMAIN docs :
             /\ i \in DOMAIN docs'
             /\ docs'[i].id = docs[i].id
             /\ docs'[i].path = docs[i].path
             /\ docs'[i].source = docs[i].source
             /\ docs'[i].created_at = docs[i].created_at]_vars

\* upsert_doc has just returned for a known path while the store holds
\* another document, last updated at another time
C10_Witness ==
    /\ pc = "summarize_private"
    /\ DocsOf(docs, path) # {}
    /\ \E i \in DOMAIN docs : docs[i].path # path /\ docs[i].updated_at # now

(***************************************************************************)
(* The batch runs with overlapping target directories: BASE itself is      *)
(* configured after the other target directories, so every file below      *)
(* them is reached twice in one run.                                       *)
(***************************************************************************)
OVERLAP_DIRS == TARGET_DIRS \o << <<>> >>

InitOverlap ==
    /\ docs = <<>>
    /\ chunks = <<>>
    /\ tdocs = <<>>
    /\ tchunks = <<>>
    /\ pc = "idle"
    /\ base = 0
    /\ todo = <<>>
    /\ Locals
    /\ now = 0
    /\ run = 0
    /\ cause = None
    /\ last = None
    /\ snap = <<>>
    /\ indexed = {}
    /\ submitted = {}
    /\ qkw = <<>>
    /\ result = <<>>
    /\ call = <<>>
    /\ tree = Tree
    /\ roots = OVERLAP_DIRS
    /\ changes = 0
    /\ NoService

SpecOverlap == InitOverlap /\ [][Next]_vars

(***************************************************************************)
(* C11: in every store state, committed or inside a transaction, no two    *)
(* docs rows have the same path and no two docs rows have the same id, so  *)
(* a file reached again, in the same run or in a later one, is not         *)
(* registered a second time.                                               *)
(***************************************************************************)
C11_PathAndIdUnique ==
    /\ \A i, j \in DOMAIN docs :
         (docs[i].path = docs[j].path \/ docs[i].id = docs[j].id) => i = j
    /\ \A i, j \in DOMAIN tdocs :
         (tdocs[i].path = tdocs[j].path \/ tdocs[i].id = tdocs[j].id) => i = j

\* upsert_doc has just returned for a file the same run has committed
\* before, reached again through the overlapping target directory, while
\* the store holds a second document
C11_Witness ==
    /\ pc = "summarize_private"
    /\ path \in indexed
    /\ Len(tdocs) = 2
    /\ Len(docs) = 2

(***************************************************************************)
(* The batch runs over a tree that changes between runs: a file that is   *)
(* a candidate is deleted, or Research/c.TXT is renamed to                 *)
(* Research/r.TXT.                                                         *)
(***************************************************************************)
DeleteFile ==
    /\ Stopped
    /\ changes < MaxChanges
    /\ \E f \in Candidates : tree' = tree \ {f}
    /\ changes' = changes + 1
    /\ UNCHANGED <<store, conn, pc, base, todo, locals, now, ghost_run, cause,
                   indexed, submitted, query_vars, call, roots, service>>

RenameFile ==
    /\ Stopped
    /\ changes < MaxChanges
    /\ fC \in tree
    /\ fR \notin tree
    /\ tree' = (tree \ {fC}) \cup {fR}
    /\ changes' = changes + 1
    /\ UNCHANGED <<store, conn, pc, base, todo, locals, now, ghost_run, cause,
                   indexed, submitted, query_vars, call, roots, service>>

NextTree ==
    \/ Next
    \/ DeleteFile
    \/ RenameFile

SpecTree == Init /\ [][NextTree]_vars

\* the rows of a chunks table of document d, in their order
ChunksOf(tbl, d) == SelectSeq(tbl, LAMBDA r : r.doc_id = d)

\* the open transaction holds the committed rows of every path outside the
\* set cand of paths
Untouched(cand) ==
    \A i \in DOMAIN docs :
        docs[i].path \notin cand =>
            /\ i \in DOMAIN tdocs
            /\ tdocs[i] = docs[i]
            /\ ChunksOf(tchunks, docs[i].id) = ChunksOf(chunks, docs[i].id)

(***************************************************************************)
(* C12: no step removes a docs row; the docs row and the chunk rows of a   *)
(* path that is not a candidate of the tree (its file was deleted or       *)
(* renamed) are the same after every step, in the committed tables and in  *)
(* the open transaction; when a complete run over the tree with the        *)
(* renamed file ends, the new name has a docs row of its own, with another *)
(* id than the old name.                                                   *)
(***************************************************************************)
C12_OrphansKept ==
    [][\A cand \in {Candidates} :
           /\ \A i \in DOMAIN docs :
                /\ i \in DOMAIN docs'
                /\ docs'[i].id = docs[i].id
                /\ docs'[i].path = docs[i].path
                /\ docs[i].path \notin cand =>
                       /\ docs'[i] = docs[i]
                       /\ ChunksOf(chunks', docs[i].id) = ChunksOf(chunks, docs[i].id)
           /\ Untouched(cand)
           /\ (tree' = tree) => Untouched(cand)'
           /\ (pc # "done" /\ pc' = "done" /\ fR \in tree) =>
                 /\ DocsOf(docs', fR) # {}
                 /\ \A i \in DocsOf(docs', fR), j \in DocsOf(docs', fC) :
                        docs'[i].id # docs'[j].id]_vars

\* a complete run has indexed the new name of a renamed file; the row of
\* the old name and both of its chunks are those of the earlier run
C12_Witness ==
    /\ pc = "done"
    /\ fR \in tree
    /\ DocsOf(docs, fR) # {}
    /\ \E j \in DocsOf(docs, fC) :
         /\ docs[j].updated_at < now
         /\ Len(ChunksOf(chunks, docs[j].id)) = 2

(***************************************************************************)
(* C13: a reader sees the committed tables.  Over every step of a batch    *)
(* run, each (doc_id, layer) pair that has a committed chunk has exactly   *)
(* one committed chunk after the step, which is the chunk it had or the    *)
(* chunk the commit of that document writes; the answer of a query made    *)
(* at any point of the run is computed from these tables.                  *)
(***************************************************************************)
C13_ReadersSeeOneChunk ==
    [][/\ \A c \in Rows(chunks) :
             /\ Count(chunks', c.doc_id, c.layer) = 1
             /\ \E n \in Rows(chunks') :
                    /\ n.doc_id = c.doc_id
                    /\ n.layer = c.layer
                    /\ \/ n = c
                       \/ /\ pc = "commit"
                          /\ c.doc_id = doc_id
                          /\ n \in Rows(tchunks)
       /\ (<<qkw, result>>' # <<qkw, result>>) =>
             result' = search(chunks, docs, qkw')]_vars

\* a query is answered between the two statements of the replacement of a
\* public chunk and its commit: it shows the chunk of the earlier run, not
\* the one the open transaction holds
C13_Witness ==
    /\ pc = "commit"
    /\ Count(chunks, doc_id, "public") = 1
    /\ Count(tchunks, doc_id, "public") = 1
    /\ result # <<>>
    /\ result = search(chunks, docs, qkw)
    /\ result # search(tchunks, tdocs, qkw)

(***************************************************************************)
(* Lines 78-83 of main() for one document whose text has one of the        *)
(* lengths around the two truncation bounds.  The character at a position  *)
(* depends on the position, so that a window other than the first          *)
(* characters is seen.                                                     *)
(***************************************************************************)
Alphabet == <<"a", "b", "c", "d", "e", "f", "g">>

TextOfLen(n) == [i \in 1..n |-> Alphabet[(i % Len(Alphabet)) + 1]]

Lengths ==
    {0, 1, PROMPT_LEN - 1, PROMPT_LEN, PROMPT_LEN + 1,
     SNAPSHOT_LEN - 1, SNAPSHOT_LEN, SNAPSHOT_LEN + 1, MaxLen}

\* the state after line 77 has read the first candidate of a first run
InitText ==
    /\ docs = <<>>
    /\ chunks = <<>>
    /\ tdocs = <<>>
    /\ tchunks = <<>>
    /\ pc = "upsert_doc"
    /\ base = 1
    /\ todo = <<>>
    /\ path = fA
    /\ text \in {TextOfLen(n) : n \in Lengths}
    /\ doc_id = 0
    /\ private_summary = <<>>
    /\ public_summary = <<>>
    /\ now = 1
    /\ run = 1
    /\ cause = None
    /\ last = None
    /\ snap = <<>>
    /\ indexed = {}
    /\ submitted = {}
    /\ qkw = <<>>
    /\ result = <<>>
    /\ call = <<>>
    /\ tree = Tree
    /\ roots = TARGET_DIRS
    /\ changes = 0
    /\ NoService

NextText ==
    \/ UpsertDoc
    \/ SummarizePrivate
    \/ SummarizePublic
    \/ UpsertChunkPrivate
    \/ UpsertChunkPublic
    \/ Commit

SpecText == InitText /\ [][NextText]_vars

\* s is the first min(Len(t), k) characters of t
FirstChars(s, t, k) ==
    /\ Len(s) = IF Len(t) < k THEN Len(t) ELSE k
    /\ \A i \in 1..Len(s) : s[i] = t[i]

(***************************************************************************)
(* C14: once a summary of the document has been asked for, the text        *)
(* submitted for it is the first min(n, 6000) characters of the document   *)
(* text of length n; once a chunk of the document is written, its content  *)
(* is the first min(n, 10000) characters; at the commit both requests and  *)
(* both chunks are there, and what is committed is what was written.       *)
(***************************************************************************)
C14_TruncationBounds ==
    /\ \A r \in submitted :
           r.path = path => FirstChars(r.text, text, 6000)
    /\ \A c \in Rows(tchunks) :
           (c.doc_id = doc_id /\ pc \in InDocument) =>
               FirstChars(c.content, text, 10000)
    /\ pc = "commit" =>
           /\ {r.layer : r \in submitted} = {"private", "public"}
           /\ {c.layer : c \in Rows(tchunks)} = {"private", "public"}
    /\ \A c \in Rows(chunks) :
           /\ Len(c.content) <= 10000
           /\ c.content = TextOfLen(Len(c.content))

\* a document of MaxLen characters is at its commit: the snapshots have
\* 10000 characters and the submitted texts 6000
C14_Witness ==
    /\ pc = "commit"
    /\ Len(text) = MaxLen
    /\ \A c \in Rows(tchunks) : Len(c.content) = 10000
    /\ \A r \in submitted : Len(r.text) = 6000
    /\ Cardinality(submitted) = 2
    /\ Len(tchunks) = 2

\* k occurs in s as a contiguous substring
Contains(s, k) ==
    \E i \in 0..(Len(s) - Len(k)) : SubSeq(s, i + 1, i + Len(k)) = k

\* the first LIMIT (path, summary) pairs, in the order of the chunks table,
\* of the public chunks whose summary contains kw, letter case apart
SubstringMatches(ch, dc, kw) ==
    LET rows == Take(SelectSeq(Join(ch, dc),
                               LAMBDA r : /\ r.layer = "public"
                                          /\ Contains(lower(r.summary), lower(kw))),
                     10)
    IN  [i \in DOMAIN rows |-> <<rows[i].path, rows[i].summary>>]

(***************************************************************************)
(* C15: for every keyword, search returns exactly the first at most 10,    *)
(* in storage order, of the (path, summary) pairs of the public chunks     *)
(* whose summary contains the keyword as a case-insensitive substring.     *)
(* The keyword "_" refutes it: LIKE takes it as a wildcard and returns     *)
(* the summary "c", which does not contain it.                             *)
(***************************************************************************)
C15_SearchIsSubstringMatch ==
    \A kw \in Keywords :
        search(chunks, docs, kw) = SubstringMatches(chunks, docs, kw)

(***************************************************************************)
(* ollama_adapter.py, with the process it starts as an input.              *)
(***************************************************************************)
Whitespace == {" ", "\n", "\t"}

RECURSIVE lstrip(_)
lstrip(s) ==
    IF s # <<>> /\ Head(s) \in Whitespace THEN lstrip(Tail(s)) ELSE s

RECURSIVE rstrip(_)
rstrip(s) ==
    IF s # <<>> /\ s[Len(s)] \in Whitespace
    THEN rstrip(SubSeq(s, 1, Len(s) - 1))
    ELSE s

\* str.strip()
strip(s) == rstrip(lstrip(s))

DEFAULT_MODEL == "llama3.1"

Stdouts == { <<" ", "A", "b", "\n">>, <<"c">>, <<>> }
Stderrs == { <<"e", "\n">>, <<" ">>, <<>> }

\* what subprocess.run(cmd, ...) of line 11 can do: the process runs and
\* ends with a return code, or it cannot be started (no ollama executable)
\* and subprocess.run raises OSError
Runs ==
    [started : {TRUE}, returncode : {0, 1}, stdout : Stdouts, stderr : Stderrs]
        \cup {[started |-> FALSE, returncode |-> 0, stdout |-> <<>>, stderr |-> <<>>]}

FAILED == <<"ollama run failed">>

\* the value ollama_generate returns or the exception that leaves it
ollama_generate(prompt, proc) ==
    IF ~proc.started
    THEN [kind |-> "OSError", value |-> <<>>]
    ELSE IF proc.returncode # 0
         THEN [kind |-> "RuntimeError",
               value |-> IF strip(proc.stderr) # <<>> THEN strip(proc.stderr)
                         ELSE FAILED]
         ELSE [kind |-> "return", value |-> strip(proc.stdout)]

PRIVATE_PROMPT ==
    <<"Summarize the following text in 5-7 bullet points. Keep all key facts.\n\n">>

PUBLIC_PROMPT ==
    <<"Summarize the following text in 3-5 bullet points, redacting sensitive details and removing specific names or identifiers.\n\n">>

Prompt(layer, t) ==
    (IF layer = "private" THEN PRIVATE_PROMPT ELSE PUBLIC_PROMPT) \o PromptText(t)

summarize_private(t, proc) == ollama_generate(Prompt("private", t), proc)

summarize_public(t, proc) == ollama_generate(Prompt("public", t), proc)

\* one subprocess.run call: its command, its input and what became of it
Invocation(prompt, proc) ==
    [cmd |-> <<"ollama", "run", DEFAULT_MODEL>>, input |-> prompt, proc |-> proc]

ServiceTexts == { <<>>, <<"x", "y">>, <<"s">> }

\* a direct call of summarize_private or summarize_public
CallSummarize ==
    /\ \E layer \in Layers, t \in ServiceTexts, proc \in Runs :
         /\ procs' = << Invocation(Prompt(layer, t), proc) >>
         /\ ret' = << IF layer = "private" THEN summarize_private(t, proc)
                      ELSE summarize_public(t, proc) >>
    /\ UNCHANGED <<store, conn, pc, base, todo, locals, now, ghost_run, cause,
                   indexed, submitted, query_vars, call, env, req, resp>>

SpecAdapter == Init /\ [][CallSummarize]_vars

(***************************************************************************)
(* rlm_api.py: POST /summarize.  An exception that leaves the handler      *)
(* is answered by the framework with status 500.                           *)
(***************************************************************************)
API_TOKEN == "CHANGE_ME"

\* x_token is "" when the header is absent
Tokens == {"", API_TOKEN, "wrong"}

\* req.mode is any string, "public" when the field is absent
Modes == {"private", "public", "other"}

Answer(r) ==
    IF r.kind = "return"
    THEN [status |-> 200, detail |-> "", summary |-> r.value]
    ELSE [status |-> 500, detail |-> "Internal Server Error", summary |-> <<>>]

\* the handler without the check of lines 18-19
summarize_NoAuth ==
    /\ \E x_token \in Tokens, mode \in Modes, t \in ServiceTexts, proc \in Runs :
         /\ req' = << [x_token |-> x_token, mode |-> mode, text |-> t] >>
         /\ LET layer == IF mode = "private" THEN "private" ELSE "public"
                r == IF mode = "private" THEN summarize_private(t, proc)
                     ELSE summarize_public(t, proc)
            IN  /\ procs' = << Invocation(Prompt(layer, t), proc) >>
                /\ ret' = << r >>
                /\ resp' = << Answer(r) >>
    /\ UNCHANGED <<store, conn, pc, base, todo, locals, now, ghost_run, cause,
                   indexed, submitted, query_vars, call, env>>

summarize ==
    /\ \E x_token \in Tokens, mode \in Modes, t \in ServiceTexts, proc \in Runs :
         /\ req' = << [x_token |-> x_token, mode |-> mode, text |-> t] >>
         /\ IF API_TOKEN # "" /\ x_token # API_TOKEN
            THEN /\ resp' = << [status |-> 401, detail |-> "Unauthorized",
                                summary |-> <<>>] >>
                 /\ procs' = <<>>
                 /\ ret' = <<>>
            ELSE LET layer == IF mode = "private" THEN "private" ELSE "public"
                     r == IF mode = "private" THEN summarize_private(t, proc)
                          ELSE summarize_public(t, proc)
                 IN  /\ procs' = << Invocation(Prompt(layer, t), proc) >>
                     /\ ret' = << r >>
                     /\ resp' = << Answer(r) >>
    /\ UNCHANGED <<store, conn, pc, base, todo, locals, now, ghost_run, cause,
                   indexed, submitted, query_vars, call, env>>

SpecApi == Init /\ [][summarize]_vars

(***************************************************************************)
(* C16 as stated: a request whose x-token is absent or wrong is answered   *)
(* with 401 and starts no summarization; a request with the matching       *)
(* x-token is answered with {summary}.  Refuted by a request with the      *)
(* matching token whose backend run fails.                                 *)
(***************************************************************************)
C16_MatchingTokenGetsSummary ==
    req # <<>> =>
        /\ req[1].x_token # API_TOKEN =>
               /\ resp[1].status = 401
               /\ procs = <<>>
        /\ req[1].x_token = API_TOKEN =>
               /\ resp[1].status = 200
               /\ resp[1].summary = ret[1].value

\* the response to the last request is the one the token and the backend
\* run determine
Answered ==
    req # <<>> =>
        /\ req[1].x_token # API_TOKEN =>
               /\ resp[1].status = 401
               /\ procs = <<>>
               /\ ret = <<>>
        /\ req[1].x_token = API_TOKEN =>
               /\ Len(procs) = 1
               /\ procs[1].input =
                      Prompt(IF req[1].mode = "private" THEN "private" ELSE "public",
                             req[1].text)
               /\ IF procs[1].proc.started /\ procs[1].proc.returncode = 0
                  THEN /\ resp[1].status = 200
                       /\ resp[1].summary = strip(procs[1].proc.stdout)
                  ELSE /\ resp[1].status = 500
                       /\ resp[1].summary = <<>>

(***************************************************************************)
(* C16: a request to /summarize changes neither the store nor a            *)
(* transaction.  A request whose x-token is absent or is not the           *)
(* configured secret is answered with 401 and no summarization is          *)
(* started.  A request with the matching x-token starts exactly one        *)
(* summarization, of the private kind for mode "private" and of the        *)
(* public kind for any other mode; it is answered with {summary} when      *)
(* that summarization succeeds and with a server error when it fails.      *)
(***************************************************************************)
C16_TokenChecked ==
    [][/\ UNCHANGED <<store, conn>>
       /\ Answered']_vars

\* a request without the header has been refused
C16_Witness ==
    /\ req # <<>>
    /\ req[1].x_token = ""
    /\ req[1].mode = "private"
    /\ resp[1].status = 401
    /\ procs = <<>>

(***************************************************************************)
(* C17 as stated: when the backend cannot be reached or ends with a        *)
(* non-success status, the summarize call raises the adapter's error       *)
(* (RuntimeError) with the backend's diagnostic text; the backend is       *)
(* started exactly once per call; on success the call returns the          *)
(* backend's output.  Refuted when the ollama executable cannot be         *)
(* started: the error of subprocess.run leaves the adapter as it is.       *)
(***************************************************************************)
C17_BackendErrorOnFailure ==
    procs # <<>> =>
        /\ Len(procs) = 1
        /\ (~procs[1].proc.started \/ procs[1].proc.returncode # 0) =>
               /\ ret[1].kind = "RuntimeError"
               /\ strip(procs[1].proc.stderr) # <<>> =>
                      ret[1].value = strip(procs[1].proc.stderr)
        /\ (procs[1].proc.started /\ procs[1].proc.returncode = 0) =>
               /\ ret[1].kind = "return"
               /\ ret[1].value = strip(procs[1].proc.stdout)

\* the rows of layer l of document d in a chunks table
LayerOf(tbl, d, l) == SelectSeq(tbl, LAMBDA r : r.doc_id = d /\ r.layer = l)

\* the layers of the current document that a summary was asked for
Asked == {r.layer : r \in {q \in submitted : q.path = path}}

\* the current document has its row in the open transaction, not committed
IdentityUpserted ==
    /\ doc_id # 0
    /\ \E i \in DocsOf(tdocs, path) :
         /\ tdocs[i].id = doc_id
         /\ tdocs[i].updated_at = now
    /\ \A i \in DocsOf(docs, path) : docs[i].updated_at < now

\* layer l of the current document is replaced in the open transaction
Replaced(l, summary) ==
    LayerOf(tchunks, doc_id, l) =
        << ChunkRow(doc_id, l, Take(text, SNAPSHOT_LEN), summary) >>

\* layer l of the current document is untouched in the open transaction
NotReplaced(l) == LayerOf(tchunks, doc_id, l) = LayerOf(chunks, doc_id, l)

(***************************************************************************)
(* C18: at each statement of the loop body the effects of the statements   *)
(* before it are there and none of a later one: the text is read before    *)
(* the row of the document is upserted, the row before the private         *)
(* summary is asked for, the private summary before the public one, both   *)
(* summaries before the private chunk is replaced, the private chunk       *)
(* before the public one, and both before the commit.  Between two         *)
(* documents nothing is uncommitted, and every summary asked for so far    *)
(* in the run belongs to a committed document or to the current one.       *)
(***************************************************************************)
C18_StepOrder ==
    /\ pc \in {"roots", "walk", "read", "upsert_doc"} =>
           /\ tdocs = docs
           /\ tchunks = chunks
           /\ doc_id = 0
           /\ Asked = {}
    /\ pc \in {"roots", "walk"} => path = NoPath /\ text = <<>>
    /\ pc = "read" => path \in tree /\ text = <<>>
    /\ pc \in {"upsert_doc"} \cup InDocument => text = read_text(path)
    /\ pc \in InDocument => IdentityUpserted
    /\ pc = "summarize_private" =>
           /\ Asked = {}
           /\ tchunks = chunks
    /\ pc = "summarize_public" =>
           /\ Asked = {"private"}
           /\ private_summary \in Outputs
           /\ tchunks = chunks
    /\ pc = "chunk_private" =>
           /\ Asked = {"private", "public"}
           /\ public_summary \in Outputs
           /\ tchunks = chunks
    /\ pc = "chunk_public" =>
           /\ Asked = {"private", "public"}
           /\ Replaced("private", private_summary)
           /\ NotReplaced("public")
    /\ pc = "commit" =>
           /\ Asked = {"private", "public"}
           /\ Replaced("private", private_summary)
           /\ Replaced("public", public_summary)
    /\ pc \in {"roots", "walk", "read", "upsert_doc"} \cup InDocument =>
           {q.path : q \in submitted} \subseteq indexed \cup {path}

\* the second document of a run is at its commit, the first is committed
C18_Witness ==
    /\ pc = "commit"
    /\ path = fC
    /\ fA \in indexed
    /\ Len(docs) = 1
    /\ Len(tdocs) = 2
    /\ Len(tchunks) = 4

\* the target directories that do not exist
Missing == {b \in DOMAIN roots : ~exists(roots[b])}

(***************************************************************************)
(* C19: a target directory that does not exist yields no path and no docs  *)
(* row, and is no cause of an abort: a run is aborted only by a read or a  *)
(* backend failure, the directory a run walks exists, and a run that ends  *)
(* has indexed every candidate of the directories that exist, those after  *)
(* the missing one included.                                               *)
(***************************************************************************)
C19_MissingRootSkipped ==
    /\ \A b \in Missing :
           /\ rglob(roots[b]) = <<>>
           /\ \A i \in DOMAIN docs : ~IsPrefix(roots[b], docs[i].path.parts)
    /\ pc = "aborted" => cause \in {"read", "backend"}
    /\ pc \in {"walk", "read", "upsert_doc"} \cup InDocument =>
           /\ base \in DOMAIN roots
           /\ base \notin Missing
    /\ pc = "done" =>
           /\ indexed = Candidates
           /\ \A p \in Candidates : DocsOf(docs, p) # {}

\* a run has ended normally and has indexed Research/c.TXT, which is under
\* the target directory after the missing one
C19_Witness ==
    /\ pc = "done"
    /\ Missing = {2}
    /\ IsPrefix(roots[3], fC.parts)
    /\ fC \in indexed
    /\ DocsOf(docs, fC) # {}

\* every row of the docs table dc has exactly one private and one public
\* chunk in the chunks table ch, and every chunk belongs to a docs row
Paired(dc, ch) ==
    /\ \A i \in DOMAIN dc :
         /\ Count(ch, dc[i].id, "private") = 1
         /\ Count(ch, dc[i].id, "public") = 1
    /\ \A c \in Rows(ch) : \E i \in DOMAIN dc : dc[i].id = c.doc_id

(***************************************************************************)
(* C20: starting from the empty store, before and after every step every   *)
(* committed docs row has exactly one committed private chunk and exactly  *)
(* one committed public chunk; and the step that aborts a run on a failed  *)
(* summarization leaves the committed tables as they are, although the     *)
(* open transaction holds the docs row the document was given or its new   *)
(* updated_at, and the transaction is rolled back.                         *)
(***************************************************************************)
C20_CommittedDocsComplete ==
    [][/\ Paired(docs, chunks)
       /\ Paired(docs', chunks')
       /\ (pc # "aborted" /\ pc' = "aborted" /\ cause' = "backend") =>
              /\ tdocs # docs
              /\ docs' = docs
              /\ chunks' = chunks
              /\ tdocs' = docs
              /\ tchunks' = chunks]_vars

\* a run has committed Shared/a.md and was aborted by the backend on
\* Research/c.TXT, whose row of an earlier run keeps its updated_at
C20_Witness ==
    /\ pc = "aborted"
    /\ cause = "backend"
    /\ indexed = {fA}
    /\ \E i \in DocsOf(docs, fA) : docs[i].updated_at = now
    /\ \E i \in DocsOf(docs, fC) : docs[i].updated_at < now
====
